---- MODULE Spec2Model ----
(***************************************************************************)
(* Wave Function Collapse solver of src/src/main.rs: the Map grid, its     *)
(* step / collapse / compare / unwind / reset operations and the bounded   *)
(* history of snapshots used for backtracking.                             *)
(*                                                                         *)
(* A Pattern is identified by its texture_index (main.rs:442 builds the    *)
(* catalog with texture_index = position); its edges and weight are read   *)
(* from the catalog.  Option<Pattern> is a sequence of length 0 or 1.      *)
(* The pixel buffer written by apply_collapse is rendering output and is   *)
(* not part of the model.  HISTORY_LENGTH is a compile-time constant; the  *)
(* step code is run with it and with smaller capacities (variable          *)
(* capacity), so that eviction and an always-empty history are reached on  *)
(* small grids.                                                            *)
(*                                                                         *)
(* The second part is the preprocessing that turns a source image into     *)
(* patterns and adjacency rules: image_to_textures and                     *)
(* get_edges_for_textures of main.rs, TileProcessor of tile_model.rs and   *)
(* OverlappingPreprocessor of overlapping_model.rs.  An Image is its       *)
(* width, its height and its pixels in row-major order.                    *)
(***************************************************************************)
EXTENDS Integers, Sequences, FiniteSets, TLC

\* ---------------------------------------------------------------- bounds
MaxWidth == 3
MaxHeight == 2
MaxCells == 6
\* grids with more cells than this run only with the capacities below HISTORY_LENGTH
MaxHistoryCells == 4

\* main.rs:10
HISTORY_LENGTH == 10

\* The capacities the step code is run with: the program's constant and
\* the small values at which eviction and an always-empty history happen.
Capacities == {0, 1, 2, HISTORY_LENGTH}

\* ------------------------------------------------------------- catalogs
\* edges are <<top, right, bottom, left>> (get_edge_colors, main.rs:126)
Pat(ti, e, wgt) == [texture_index |-> ti, edges |-> e, weight |-> wgt]

\* Scenario A: every pattern is compatible with every pattern in all directions
CatalogA == << Pat(0, <<0, 0, 0, 0>>, 1), Pat(1, <<0, 0, 0, 0>>, 2) >>
\* Scenario B: pattern 1 asks for a west code 1 on its east side that no
\* pattern offers, pattern 0 fits everywhere
CatalogB == << Pat(0, <<0, 0, 0, 0>>, 1), Pat(1, <<0, 1, 0, 0>>, 1) >>
\* pattern 0 must sit west of pattern 1 and pattern 1 east of pattern 0
CatalogC == << Pat(0, <<0, 1, 0, 0>>, 1), Pat(1, <<0, 2, 0, 1>>, 1) >>

\* pattern 0 shows a west code and pattern 1 a south code that no pattern
\* offers: collapses far apart each leave a neighbour without options
CatalogD == << Pat(0, <<0, 0, 0, 1>>, 1), Pat(1, <<0, 0, 1, 0>>, 1) >>

Catalogs == {CatalogA, CatalogB, CatalogC, CatalogD}

Configs == {c \in [width : 1..MaxWidth, height : 1..MaxHeight,
                   catalog : Catalogs, capacity : Capacities] :
              /\ c.width * c.height <= MaxCells
              /\ (c.capacity = HISTORY_LENGTH => c.width * c.height <= MaxHistoryCells)}

VARIABLES
  width,        \* Map.width
  height,       \* Map.height
  catalog,      \* the options handed to Map::new and Map::reset
  capacity,     \* the value of HISTORY_LENGTH the step code runs with
  tiles,        \* Map.tiles: index -> [collapsed, options]
  history,      \* Map.history: sequence of [map_tiles, pattern]
  can_continue, \* main's can_continue: the last value step() returned
  lastOp,       \* what the last call did: [op, cell, pattern]
  pre,          \* observer: for each collapse still in history, the whole grid
                \* before it, its target cell and the pattern it chose
  forbidden     \* observer: the <<cell, pattern>> pairs unwind has removed from
                \* a cell's options since Map::new or the last reset

\* the preprocessing that builds the catalog before the Map exists
VARIABLES
  source,       \* the input: [mode, image, size, rotate, wrap_w, wrap_h]
  images,       \* the images (textures) extracted so far
  weights,      \* image_to_textures' weights
  panicked,     \* the extraction read outside the source's pixel buffer
  adjacency,    \* the AdjacencyData built by create_adjacency_rules
  stage         \* how far the preprocessing is; "solve" while the Map runs

prepVars == <<source, images, weights, panicked, adjacency, stage>>

vars == <<width, height, catalog, capacity, tiles, history, can_continue, lastOp, pre,
          forbidden, prepVars>>

\* ------------------------------------------------------------- helpers
None == <<>>
Some(p) == <<p>>

Range(s) == {s[k] : k \in 1..Len(s)}

xy_from_index(index, wd) == <<index % wd, index \div wd>>

index_from_xy(x, y, wd) == x + y * wd

Edges(p) == catalog[p + 1].edges
Weight(p) == catalog[p + 1].weight

patterns_are_equal(pa, pb) == pa = pb

AllPatterns == [k \in 1..Len(catalog) |-> catalog[k].texture_index]

MapTileNew(opts) == [collapsed |-> None, options |-> opts]

MapNew(opts, wd, hg) == [i \in 0..(wd * hg - 1) |-> MapTileNew(opts)]

Cells == DOMAIN tiles

\* ------------------------------------------------- MapTile::choose_pattern
TotalWeights(opts) ==
  LET RECURSIVE Fold(_, _)
      Fold(s, acc) == IF s = <<>> THEN acc ELSE Fold(Tail(s), acc + Weight(Head(s)))
  IN Fold(opts, 0)

\* a find whose closure tests target_weight < 0
RECURSIVE FindPattern_strict(_, _)
FindPattern_strict(opts, target_weight) ==
  IF opts = <<>> THEN None
  ELSE LET t == target_weight - Weight(Head(opts))
       IN IF t < 0 THEN Some(Head(opts)) ELSE FindPattern_strict(Tail(opts), t)

\* the find closure: target_weight -= p.weight; target_weight <= 0.
\* None is the unwrap() of a search that found nothing.
RECURSIVE FindPattern(_, _)
FindPattern(opts, target_weight) ==
  IF opts = <<>> THEN None
  ELSE LET t == target_weight - Weight(Head(opts))
       IN IF t <= 0 THEN Some(Head(opts)) ELSE FindPattern(Tail(opts), t)

\* the draws gen_range(0, total_weights + 1) can return
Draws(opts) == 0..TotalWeights(opts)

choose_pattern(opts, draw) == FindPattern(opts, draw)

\* a compare that rebuilds the neighbour's options from the whole catalog
compare_rebuild(ts, pattern, x, y, edge_size_i, edge_size_j) ==
  LET j == index_from_xy(x, y, width)
      edge == Edges(pattern)[edge_size_i + 1]
      Keep(p) == Edges(p)[edge_size_j + 1] = edge
  IN [ts EXCEPT ![j].options = SelectSeq(AllPatterns, Keep)]

\* --------------------------------------------------------- Map::compare
compare(ts, pattern, x, y, edge_size_i, edge_size_j) ==
  LET j == index_from_xy(x, y, width)
      edge == Edges(pattern)[edge_size_i + 1]
      Keep(p) == Edges(p)[edge_size_j + 1] = edge
  IN [ts EXCEPT ![j].options = SelectSeq(@, Keep)]

\* ----------------------------------------- Map::get_surrounding_indexes
get_surrounding_indexes(x, y) ==
  <<index_from_xy(x, y, width)>>
  \o (IF y # 0 THEN <<index_from_xy(x, y - 1, width)>> ELSE <<>>)
  \o (IF x # width - 1 THEN <<index_from_xy(x + 1, y, width)>> ELSE <<>>)
  \o (IF y # height - 1 THEN <<index_from_xy(x, y + 1, width)>> ELSE <<>>)
  \o (IF x # 0 THEN <<index_from_xy(x - 1, y, width)>> ELSE <<>>)
  \o (IF y # 0 /\ x # 0 THEN <<index_from_xy(x - 1, y - 1, width)>> ELSE <<>>)
  \o (IF y # 0 /\ x # width - 1 THEN <<index_from_xy(x + 1, y - 1, width)>> ELSE <<>>)
  \o (IF y # height - 1 /\ x # 0 THEN <<index_from_xy(x - 1, y + 1, width)>> ELSE <<>>)
  \o (IF y # height - 1 /\ x # width - 1 THEN <<index_from_xy(x + 1, y + 1, width)>> ELSE <<>>)

\* the map_tiles captured by step before it calls collapse (main.rs:322)
Snapshot(ts, x, y) ==
  LET idx == get_surrounding_indexes(x, y)
  IN [k \in 1..Len(idx) |-> [tile |-> ts[idx[k]], index |-> idx[k]]]

\* ---------------------------------------------------------- Map::unwind
\* the loop self.tiles[i] = t over the popped map_tiles
RECURSIVE RestoreTiles(_, _)
RestoreTiles(ts, map_tiles) ==
  IF map_tiles = <<>> THEN ts
  ELSE RestoreTiles([ts EXCEPT ![Head(map_tiles).index] = Head(map_tiles).tile],
                    Tail(map_tiles))

\* an unwind that forbids the pattern at the last captured tile, not the first
ForbidPattern_last(map_tiles, pattern) ==
  LET Keep(p) == ~patterns_are_equal(p, pattern)
  IN [map_tiles EXCEPT ![Len(map_tiles)].tile.options = SelectSeq(@, Keep)]

\* an unwind that restores the snapshot without forbidding the pattern
ForbidPattern_none(map_tiles, pattern) == map_tiles

\* map_tiles[0].0.options.retain(|p| !patterns_are_equal(p, &pattern))
ForbidPattern(map_tiles, pattern) ==
  LET Keep(p) == ~patterns_are_equal(p, pattern)
  IN [map_tiles EXCEPT ![1].tile.options = SelectSeq(@, Keep)]

\* an unwind that puts back only the target of the undone collapse
unwind_target(ts, hist) ==
  LET top == hist[Len(hist)]
  IN RestoreTiles(ts, SubSeq(ForbidPattern(top.map_tiles, top.pattern), 1, 1))

\* the tiles after unwind, for the history before the pop
unwind(ts, hist) ==
  LET top == hist[Len(hist)]
  IN RestoreTiles(ts, ForbidPattern(top.map_tiles, top.pattern))

\* an observe that takes any uncollapsed cell, whatever its entropy
lowest_entropy_tile_any(ts) == {i \in DOMAIN ts : ts[i].collapsed = None}

\* an observe that forgets the collapsed.is_none() test
lowest_entropy_tile_all(ts) ==
  {i \in DOMAIN ts : \A k \in DOMAIN ts : Len(ts[i].options) <= Len(ts[k].options)}

\* an observe whose loop tests entropy_value <= lowest_entropy_value: the list
\* is cleared at every tie and only the last cell with the minimum is left
lowest_entropy_tile_last(ts) ==
  LET open == {i \in DOMAIN ts : ts[i].collapsed = None}
      low == {i \in open : \A k \in open : Len(ts[i].options) <= Len(ts[k].options)}
  IN {i \in low : \A k \in low : k <= i}

\* ------------------------------------------------ Map::lowest_entropy_tile
\* the cells the final choose() can return; the empty set is the None result
lowest_entropy_tile(ts) ==
  LET open == {i \in DOMAIN ts : ts[i].collapsed = None}
  IN {i \in open : \A k \in open : Len(ts[i].options) <= Len(ts[k].options)}

\* a collapse that hands the east neighbour the pattern's east edge to be
\* matched against its own east edge
collapse_east(ts, x, y, pattern) ==
  LET i  == index_from_xy(x, y, width)
      t1 == IF y # 0 THEN compare(ts, pattern, x, y - 1, 0, 2) ELSE ts
      t2 == IF x # width - 1 THEN compare(t1, pattern, x + 1, y, 1, 1) ELSE t1
      t3 == IF y # height - 1 THEN compare(t2, pattern, x, y + 1, 2, 0) ELSE t2
      t4 == IF x # 0 THEN compare(t3, pattern, x - 1, y, 3, 1) ELSE t3
  IN [t4 EXCEPT ![i].collapsed = Some(pattern)]

\* --------------------------------------------------------- Map::collapse
\* the tiles after collapse(x, y) chose `pattern` (options non-empty)
collapse(ts, x, y, pattern) ==
  LET i  == index_from_xy(x, y, width)
      t1 == IF y # 0 THEN compare(ts, pattern, x, y - 1, 0, 2) ELSE ts
      t2 == IF x # width - 1 THEN compare(t1, pattern, x + 1, y, 1, 3) ELSE t1
      t3 == IF y # height - 1 THEN compare(t2, pattern, x, y + 1, 2, 0) ELSE t2
      t4 == IF x # 0 THEN compare(t3, pattern, x - 1, y, 3, 1) ELSE t3
  IN [t4 EXCEPT ![i].collapsed = Some(pattern)]

\* ------------------------------------------------------------ Map::step
\* a push whose test is history.len() == HISTORY_LENGTH
PushHistory_early(hist, entry) ==
  LET pushed == Append(hist, entry)
  IN IF Len(pushed) = capacity THEN Tail(pushed) ELSE pushed

\* a push that drops the newest entry when the history is full
PushHistory_newest(hist, entry) ==
  LET pushed == Append(hist, entry)
  IN IF Len(pushed) - 1 = capacity THEN SubSeq(pushed, 1, Len(pushed) - 1) ELSE pushed

\* history.push(..); if history.len() - 1 == HISTORY_LENGTH { history.remove(0) }
PushHistory(hist, entry) ==
  LET pushed == Append(hist, entry)
  IN IF Len(pushed) - 1 = capacity THEN Tail(pushed) ELSE pushed

\* an unwind that reads the last entry and leaves it in the history
PopHistory_keep(hist) == hist

\* a pop that takes the oldest entry
PopHistory_oldest(hist) == SubSeq(hist, 2, Len(hist))

\* what self.history.pop() leaves (main.rs:263)
PopHistory(hist) == SubSeq(hist, 1, Len(hist) - 1)

\* lastOp: the path step took, the cell observed, the pattern chosen (collapse)
\* or forbidden (unwind), and the cell the collapse or the undone collapse aimed at
Op(op, cell, pattern, target) ==
  [op |-> op, cell |-> cell, pattern |-> pattern, target |-> target]

\* step: a cell was observed, its options are not empty: collapse and push
StepCollapse ==
  \E i \in lowest_entropy_tile(tiles) :
    /\ Len(tiles[i].options) # 0
    /\ \E draw \in Draws(tiles[i].options) :
         LET xy == xy_from_index(i, width)
             map_tiles == Snapshot(tiles, xy[1], xy[2])
             chosen == choose_pattern(tiles[i].options, draw)
         IN /\ chosen # None
            /\ tiles' = collapse(tiles, xy[1], xy[2], chosen[1])
            /\ history' = PushHistory(history, [map_tiles |-> map_tiles, pattern |-> chosen[1]])
            /\ pre' = PushHistory(pre, [tiles |-> tiles, cell |-> i, pattern |-> chosen[1]])
            /\ can_continue' = TRUE
            /\ lastOp' = Op("collapse", i, chosen[1], i)
    /\ UNCHANGED <<prepVars, width, height, catalog, capacity, forbidden>>

\* step: the observed cell has no options and the history is not empty: unwind
StepUnwind ==
  \E i \in lowest_entropy_tile(tiles) :
    /\ Len(tiles[i].options) = 0
    /\ Len(history) > 0
    /\ tiles' = unwind(tiles, history)
    /\ history' = PopHistory(history)
    /\ pre' = SubSeq(pre, 1, Len(pre) - 1)
    /\ can_continue' = TRUE
    /\ lastOp' = Op("unwind", i, history[Len(history)].pattern,
                   history[Len(history)].map_tiles[1].index)
    /\ forbidden' = forbidden \cup {<<history[Len(history)].map_tiles[1].index,
                                       history[Len(history)].pattern>>}
    /\ UNCHANGED <<prepVars, width, height, catalog, capacity>>

\* a stuck step that starts the grid over instead of returning false
StepStuck_restart ==
  \E i \in lowest_entropy_tile(tiles) :
    /\ Len(tiles[i].options) = 0
    /\ Len(history) = 0
    /\ tiles' = [k \in DOMAIN tiles |-> MapTileNew(AllPatterns)]
    /\ can_continue' = TRUE
    /\ lastOp' = Op("stuck", i, -1, -1)
    /\ UNCHANGED <<prepVars, width, height, catalog, capacity, forbidden, history, pre>>

\* step: the observed cell has no options and the history is empty: false
StepStuck ==
  \E i \in lowest_entropy_tile(tiles) :
    /\ Len(tiles[i].options) = 0
    /\ Len(history) = 0
    /\ can_continue' = FALSE
    /\ lastOp' = Op("stuck", i, -1, -1)
    /\ UNCHANGED <<prepVars, width, height, catalog, capacity, forbidden, tiles, history, pre>>

\* a step that returns true on a finished grid
StepFinished_true ==
  /\ lowest_entropy_tile(tiles) = {}
  /\ can_continue' = TRUE
  /\ lastOp' = Op("finished", -1, -1, -1)
  /\ UNCHANGED <<prepVars, width, height, catalog, capacity, forbidden, tiles, history, pre>>

\* step: lowest_entropy_tile returned None: false
StepFinished ==
  /\ lowest_entropy_tile(tiles) = {}
  /\ can_continue' = FALSE
  /\ lastOp' = Op("finished", -1, -1, -1)
  /\ UNCHANGED <<prepVars, width, height, catalog, capacity, forbidden, tiles, history, pre>>

Step == StepCollapse \/ StepUnwind \/ StepStuck \/ StepFinished

\* ----------------------------------------------------------- Map::reset
\* a reset that forgets t.collapsed = None
ResetTiles_keep(ts, opts) == [i \in DOMAIN ts |-> [ts[i] EXCEPT !.options = opts]]

ResetTiles(ts, opts) == [i \in DOMAIN ts |-> [collapsed |-> None, options |-> opts]]

\* a reset after which main leaves can_continue as it was
Reset_stay ==
  /\ tiles' = ResetTiles(tiles, AllPatterns)
  /\ history' = <<>>
  /\ pre' = <<>>
  /\ lastOp' = Op("reset", -1, -1, -1)
  /\ forbidden' = {}
  /\ UNCHANGED <<prepVars, width, height, catalog, capacity, can_continue>>

\* map.reset(&options); can_continue = true (main.rs:468-469)
Reset ==
  /\ tiles' = ResetTiles(tiles, AllPatterns)
  /\ history' = <<>>
  /\ pre' = <<>>
  /\ can_continue' = TRUE
  /\ lastOp' = Op("reset", -1, -1, -1)
  /\ forbidden' = {}
  /\ UNCHANGED <<prepVars, width, height, catalog, capacity>>

\* ------------------------------------------------------------ Map::new
Init ==
  \E c \in Configs :
    /\ width = c.width
    /\ height = c.height
    /\ catalog = c.catalog
    /\ capacity = c.capacity
    /\ tiles = MapNew([k \in 1..Len(c.catalog) |-> c.catalog[k].texture_index],
                      c.width, c.height)
    /\ history = <<>>
    /\ pre = <<>>
    /\ forbidden = {}
    /\ can_continue = TRUE
    /\ lastOp = Op("new", -1, -1, -1)
    /\ source = <<>>
    /\ images = <<>>
    /\ weights = <<>>
    /\ panicked = FALSE
    /\ adjacency = <<>>
    /\ stage = "solve"

\* any sequence of step() and reset() calls on the Map
Next == StepCollapse \/ StepUnwind \/ StepStuck \/ StepFinished \/ Reset

Spec == Init /\ [][Next]_vars

\* main's loop (main.rs:451-470): step while can_continue, reset once it is false
MainStep == can_continue /\ Step
MainReset == ~can_continue /\ Reset
MainNext == MainStep \/ MainReset

\* with play on, every frame calls step while can_continue holds
MainSpec == Init /\ [][MainNext]_vars /\ WF_vars(MainStep)

\* ------------------------------------------------------- state predicates
is_finished == \A i \in Cells : tiles[i].collapsed # None

\* an uncollapsed cell with no options: the contradiction the next step observes
Contradiction == \E i \in Cells : tiles[i].collapsed = None /\ Len(tiles[i].options) = 0

\* the cells collapse(x, y) hands to compare: the orthogonal neighbours of cell i
Neighbours4(i) ==
  LET x == xy_from_index(i, width)[1]
      y == xy_from_index(i, width)[2]
  IN  (IF y # 0 THEN {index_from_xy(x, y - 1, width)} ELSE {})
      \cup (IF x # width - 1 THEN {index_from_xy(x + 1, y, width)} ELSE {})
      \cup (IF y # height - 1 THEN {index_from_xy(x, y + 1, width)} ELSE {})
      \cup (IF x # 0 THEN {index_from_xy(x - 1, y, width)} ELSE {})

Front(s) == SubSeq(s, 1, Len(s) - 1)
Last(s) == s[Len(s)]
Without(opts, pattern) == LET Keep(p) == p # pattern IN SelectSeq(opts, Keep)
Captured(entry) == {entry.map_tiles[k].index : k \in 1..Len(entry.map_tiles)}

\* ======================================================================
\* C1  Backtrack correctness: a step that unwinds pops the most recent
\* snapshot; afterwards the target of the undone collapse is uncollapsed with
\* its pre-collapse options minus the attempted pattern, and every other cell
\* the snapshot captured is exactly as it was before the undone collapse.
C1_BacktrackCorrect ==
  [][lastOp'.op = "unwind" =>
       /\ Len(history) > 0
       /\ history' = Front(history)
       /\ LET was == Last(pre)
              captured == Captured(Last(history))
          IN /\ was.cell \in captured
             /\ tiles'[was.cell].collapsed = None
             /\ tiles'[was.cell].options = Without(was.tiles[was.cell].options, was.pattern)
             /\ \A i \in captured \ {was.cell} : tiles'[i] = was.tiles[i]]_vars

\* an unwind on the 3 x 2 grid left the target open, without the attempted
\* pattern, and gave the cell the undone collapse had emptied its options back
C1_Witness ==
  /\ lastOp.op = "unwind"
  /\ width = 3 /\ height = 2
  /\ tiles[lastOp.target].collapsed = None
  /\ tiles[lastOp.target].options # <<>>
  /\ lastOp.pattern \notin Range(tiles[lastOp.target].options)
  /\ Len(tiles[lastOp.cell].options) = Len(catalog)

\* ======================================================================
\* C2 as stated: after a step that collapses, every cell is collapsed or has
\* at least one option.
C2_NoEmptyAfterCollapse ==
  lastOp.op = "collapse" =>
    \A i \in Cells : tiles[i].collapsed # None \/ Len(tiles[i].options) >= 1

\* C2 amended: after a step that collapses, every cell is collapsed, or has at
\* least one option, or is an orthogonal neighbour of the cell just collapsed
\* (compare emptied it: the contradiction the next step observes).
C2_EmptyOnlyBesideCollapsed ==
  lastOp.op = "collapse" =>
    \A i \in Cells : \/ tiles[i].collapsed # None
                     \/ Len(tiles[i].options) >= 1
                     \/ i \in Neighbours4(lastOp.target)

\* a collapse left an orthogonal neighbour open and empty while the non-adjacent
\* cells all kept an option
C2_Witness ==
  /\ lastOp.op = "collapse"
  /\ \E i \in Neighbours4(lastOp.target) :
        tiles[i].collapsed = None /\ Len(tiles[i].options) = 0
  /\ \E i \in Cells \ (Neighbours4(lastOp.target) \cup {lastOp.target}) :
        tiles[i].collapsed = None /\ Len(tiles[i].options) >= 1

\* ======================================================================
\* C3  Domain monotonicity: a step that collapses adds no pattern to any
\* cell's options (each cell's options after it are among those before it);
\* options grow only in a step that unwinds or in reset.
C3_DomainMonotone ==
  [][/\ lastOp'.op = "collapse" =>
          \A i \in Cells : /\ Range(tiles'[i].options) \subseteq Range(tiles[i].options)
                           /\ Len(tiles'[i].options) <= Len(tiles[i].options)
     /\ (\E i \in Cells : ~(Range(tiles'[i].options) \subseteq Range(tiles[i].options)))
          => lastOp'.op \in {"unwind", "reset"}]_vars

\* a collapse shrank the options of a cell that still has some, on a grid where
\* a collapsed cell's options have been filtered too
C3_Witness ==
  /\ lastOp.op = "collapse"
  /\ pre # <<>>
  /\ \E i \in Cells : /\ Len(tiles[i].options) < Len(Last(pre).tiles[i].options)
                      /\ Len(tiles[i].options) >= 1
  /\ \E i \in Cells : /\ tiles[i].collapsed # None
                      /\ Len(tiles[i].options) < Len(catalog)

\* ======================================================================
\* every pattern admits every pattern on each of its four sides
AllCompatible ==
  \A a \in 1..Len(catalog), b \in 1..Len(catalog) :
    /\ catalog[a].edges[1] = catalog[b].edges[3]
    /\ catalog[a].edges[2] = catalog[b].edges[4]

NumCollapsed(ts) == Cardinality({i \in DOMAIN ts : ts[i].collapsed # None})

\* C4  Scenario A: with a catalog whose patterns are all mutually compatible,
\* on every grid, from a fresh or reset grid, no step unwinds or is stuck,
\* every step on an unfinished grid collapses one more cell and returns true,
\* the grid becomes finished, and the step on the finished grid returns false.
C4_ScenarioA ==
  /\ [](AllCompatible => lastOp.op \notin {"unwind", "stuck"})
  /\ [][(AllCompatible /\ ~is_finished) =>
          /\ lastOp'.op = "collapse"
          /\ can_continue'
          /\ NumCollapsed(tiles') = NumCollapsed(tiles) + 1]_vars
  /\ [][(AllCompatible /\ is_finished /\ lastOp'.op # "reset") =>
          (lastOp'.op = "finished" /\ ~can_continue')]_vars
  /\ (AllCompatible ~> (is_finished /\ ~can_continue))

\* the 2 x 2 grid of Scenario A is finished with both patterns in it and
\* step has returned false
C4_Witness ==
  /\ AllCompatible
  /\ width = 2 /\ height = 2
  /\ is_finished /\ ~can_continue /\ lastOp.op = "finished"
  /\ \E i, k \in Cells : tiles[i].collapsed # tiles[k].collapsed

\* ======================================================================
\* a grid filled with patterns whose facing edges agree everywhere
ValidTiling(f) ==
  \A i \in Cells :
    LET x == xy_from_index(i, width)[1]
        y == xy_from_index(i, width)[2]
    IN /\ (x # width - 1 => Edges(f[i])[2] = Edges(f[i + 1])[4])
       /\ (y # height - 1 => Edges(f[i])[3] = Edges(f[i + width])[1])

Solvable == \E f \in [Cells -> Range(AllPatterns)] : ValidTiling(f)

\* Scenario B: a two-pattern catalog on which a collapse can empty a
\* neighbour, on a grid that has a valid tiling
ScenarioB == catalog \in {CatalogB, CatalogC} /\ Solvable

\* C5  Scenario B: with capacity 0 a step that meets the contradiction returns
\* false with a cell still open and nothing changed (stuck); with capacity
\* >= 1, whatever the draws, no step is stuck and the grid becomes finished.
C5_ScenarioB ==
  /\ [][(ScenarioB /\ capacity = 0 /\ Contradiction /\ lastOp'.op # "reset") =>
          /\ lastOp'.op = "stuck"
          /\ ~can_continue'
          /\ ~is_finished'
          /\ tiles' = tiles]_vars
  /\ []((ScenarioB /\ capacity >= 1) => lastOp.op # "stuck")
  /\ ((ScenarioB /\ capacity >= 1) ~> (is_finished /\ ~can_continue))

\* capacity 0: step has returned false on a Scenario B grid with an open cell
C5_Witness ==
  /\ ScenarioB
  /\ capacity = 0
  /\ lastOp.op = "stuck" /\ ~can_continue
  /\ ~is_finished
  /\ NumCollapsed(tiles) >= 1

\* ======================================================================
\* C6  A step on a grid with no uncollapsed cell returns false and changes
\* neither a cell's options, nor a cell's collapsed value, nor the history.
C6_FinishedNoEffect ==
  [][(is_finished /\ lastOp'.op # "reset") =>
       /\ ~can_continue'
       /\ lastOp'.op = "finished"
       /\ tiles' = tiles
       /\ history' = history]_vars

\* step has returned false on a finished grid whose history is not empty
C6_Witness ==
  /\ is_finished
  /\ lastOp.op = "finished" /\ ~can_continue
  /\ Len(history) >= 2

\* ======================================================================
\* C7  Recoverable contradiction: a step on a grid with an open cell without
\* options (the cell observe then returns) and a non-empty history pops
\* exactly one snapshot, collapses no cell and returns true.
C7_RecoverableContradiction ==
  [][(Contradiction /\ Len(history) > 0 /\ lastOp'.op # "reset") =>
       /\ lastOp'.op = "unwind"
       /\ Len(tiles[lastOp'.cell].options) = 0
       /\ history' = Front(history)
       /\ \A i \in Cells : tiles'[i].collapsed # None =>
                              tiles'[i].collapsed = tiles[i].collapsed
       /\ can_continue']_vars

\* a step has unwound with two snapshots stored and left one
C7_Witness ==
  /\ lastOp.op = "unwind" /\ can_continue
  /\ Len(history) = 1
  /\ capacity >= 2
  /\ tiles[lastOp.target].collapsed = None

\* ======================================================================
\* C8  Unrecoverable contradiction: a step on a grid with an open cell without
\* options and an empty history returns false, as a normal outcome, with a
\* cell uncollapsed, and changes neither the cells nor the history.
C8_Stuck ==
  [][(Contradiction /\ Len(history) = 0 /\ lastOp'.op # "reset") =>
       /\ lastOp'.op = "stuck"
       /\ Len(tiles[lastOp'.cell].options) = 0
       /\ ~can_continue'
       /\ ~is_finished'
       /\ tiles' = tiles
       /\ history' = history]_vars

\* with capacity >= 1, the history used up by an unwind, step has returned false
C8_Witness ==
  /\ lastOp.op = "stuck" /\ ~can_continue
  /\ capacity >= 1
  /\ history = <<>>
  /\ ~is_finished
  /\ Contradiction

\* ======================================================================
\* C9  The history is bounded: it never holds more snapshots than the
\* capacity; a push on a full history discards the oldest snapshot and keeps
\* the others in order with the new one last; an unwind removes the newest.
C9_HistoryBounded ==
  /\ [](Len(history) <= capacity)
  /\ [][lastOp'.op = "collapse" =>
          IF Len(history) < capacity
          THEN /\ Len(history') = Len(history) + 1
               /\ Front(history') = history
               /\ Last(history').pattern = lastOp'.pattern
               /\ Last(history').map_tiles[1].index = lastOp'.target
          ELSE /\ Len(history') = capacity
               /\ \A k \in 1..(capacity - 1) : history'[k] = history[k + 1]
               /\ capacity > 0 =>
                    /\ Last(history').pattern = lastOp'.pattern
                    /\ Last(history').map_tiles[1].index = lastOp'.target]_vars
  /\ [][lastOp'.op = "unwind" => history' = Front(history)]_vars

\* a collapse on a full history of capacity 2 evicted the oldest snapshot
C9_Witness ==
  /\ lastOp.op = "collapse"
  /\ capacity = 2
  /\ Len(history) = capacity
  /\ NumCollapsed(tiles) > capacity
  /\ Last(history).map_tiles[1].index = lastOp.target

\* ======================================================================
\* C10  After reset every cell has the full pattern list and no collapsed
\* value and the history is empty: the cells and the history equal those of
\* Map::new for the same catalog and dimensions.
C10_ResetRestores ==
  lastOp.op = "reset" =>
    /\ tiles = MapNew(AllPatterns, width, height)
    /\ \A i \in Cells : tiles[i].collapsed = None /\ tiles[i].options = AllPatterns
    /\ history = <<>>

\* the observable state after reset on the largest grid
C10_Witness ==
  /\ lastOp.op = "reset"
  /\ width * height = MaxCells
  /\ can_continue
  /\ history = <<>>

\* ======================================================================
\* the uncollapsed cells whose options list is no longer than that of any
\* other uncollapsed cell
MinEntropyCells ==
  {c \in Cells : /\ tiles[c].collapsed = None
                 /\ \A k \in Cells : tiles[k].collapsed = None =>
                                       Len(tiles[c].options) <= Len(tiles[k].options)}

\* C14  Observe picks a minimum-entropy cell: the cell a step collapses, or
\* finds without options, is uncollapsed and no uncollapsed cell has fewer
\* options; every uncollapsed cell with the minimum can be the one observed;
\* a step on a grid with an open cell without options collapses no cell.
C14_ObserveMinEntropy ==
  /\ [][lastOp'.op \in {"collapse", "unwind", "stuck"} =>
          lastOp'.cell \in MinEntropyCells]_vars
  /\ [][(Contradiction /\ lastOp'.op # "reset") =>
          (lastOp'.op \in {"unwind", "stuck"} /\
           NumCollapsed(tiles') <= NumCollapsed(tiles))]_vars
  /\ [](\A c \in MinEntropyCells : ENABLED (Step /\ lastOp'.cell = c))

\* a collapse took the cell with the single option while cells with two
\* options were open, on the 3 x 2 grid
C14_Witness ==
  /\ lastOp.op = "collapse"
  /\ width = 3 /\ height = 2
  /\ pre # <<>>
  /\ Len(Last(pre).tiles[lastOp.cell].options) = 1
  /\ \E k \in Cells : /\ Last(pre).tiles[k].collapsed = None
                      /\ Len(Last(pre).tiles[k].options) = 2

\* ======================================================================
\* C15  Commit: after a step that collapses a cell with pattern p the cell's
\* collapsed value is p and its options are exactly <<p>>; every collapsed
\* cell has exactly one option.
C15_CommitSingleton ==
  /\ lastOp.op = "collapse" =>
       /\ tiles[lastOp.target].collapsed = Some(lastOp.pattern)
       /\ tiles[lastOp.target].options = <<lastOp.pattern>>
  /\ \A i \in Cells : tiles[i].collapsed # None => Len(tiles[i].options) = 1

\* the patterns cell n can still take: its collapsed pattern, else its options
Domain(n) ==
  IF tiles[n].collapsed # None THEN {tiles[n].collapsed[1]} ELSE Range(tiles[n].options)

\* every option of cell c has a support in Domain(n) across the shared edge;
\* ec is c's edge facing n and en is n's edge facing c
Supported(c, n, ec, en) ==
  \A p \in Range(tiles[c].options) :
    \E q \in Domain(n) : Edges(p)[ec + 1] = Edges(q)[en + 1]

\* no uncollapsed cell holds an option that a neighbour's domain rules out
Stable ==
  \A c \in Cells :
    tiles[c].collapsed = None =>
      LET x == xy_from_index(c, width)[1]
          y == xy_from_index(c, width)[2]
      IN /\ (y # 0 => Supported(c, index_from_xy(x, y - 1, width), 0, 2))
         /\ (x # width - 1 => Supported(c, index_from_xy(x + 1, y, width), 1, 3))
         /\ (y # height - 1 => Supported(c, index_from_xy(x, y + 1, width), 2, 0))
         /\ (x # 0 => Supported(c, index_from_xy(x - 1, y, width), 3, 1))

\* C16  Propagation reaches a fixpoint: after every step that performs a
\* collapse the grid is stable, i.e. for every uncollapsed cell and each of its
\* four neighbours every option of the cell is admitted across the shared edge
\* by some pattern of the neighbour's domain (or by its collapsed pattern).
C16_PropagationFixpoint == lastOp.op = "collapse" => Stable

\* C17  Auto-collapse: a cell whose options a collapsing step reduces to exactly
\* one pattern is collapsed by the end of that step; after a collapsing step no
\* uncollapsed cell shrunk by the step has exactly one option.
C17_AutoCollapse ==
  [][lastOp'.op = "collapse" =>
       \A i \in Cells :
         (/\ Len(tiles'[i].options) < Len(tiles[i].options)
          /\ Len(tiles'[i].options) = 1) => tiles'[i].collapsed # None]_vars

\* the cells the snapshot of a collapse aimed at cell t captures
Surrounding(t) ==
  Range(get_surrounding_indexes(xy_from_index(t, width)[1], xy_from_index(t, width)[2]))

\* C18 as stated: after a step that unwinds because of a contradiction at cell
\* C, the next step does not meet a contradiction at the same cell C.
C18_NoImmediateRecurrence ==
  [][(lastOp.op = "unwind" /\ lastOp'.op \in {"unwind", "stuck"}) =>
       lastOp'.cell # lastOp.cell]_vars

\* C18  After a step that unwinds because of a contradiction at cell C, if the
\* popped snapshot captured C (C is the target of the undone collapse or one of
\* its eight surrounding cells) then C has options again and the next step does
\* not meet a contradiction at C; if it did not capture C then C is still
\* without options and is among the cells the next step may observe.
C18_NoRecurrenceWhenCaptured ==
  /\ [][(/\ lastOp.op = "unwind"
         /\ lastOp.cell \in Surrounding(lastOp.target)
         /\ lastOp'.op \in {"unwind", "stuck"}) =>
          lastOp'.cell # lastOp.cell]_vars
  /\ [](lastOp.op = "unwind" =>
          IF lastOp.cell \in Surrounding(lastOp.target)
          THEN Len(tiles[lastOp.cell].options) > 0
          ELSE /\ Len(tiles[lastOp.cell].options) = 0
               /\ lastOp.cell \in MinEntropyCells)

\* an unwind whose snapshot captured the contradiction cell has just run and
\* left another cell without options, so the next step meets a contradiction
C18_Witness ==
  /\ lastOp.op = "unwind"
  /\ lastOp.cell \in Surrounding(lastOp.target)
  /\ Contradiction

\* C19 as stated: once unwind has removed pattern p from a cell's options, p
\* is never again among that cell's options until reset is called.
C19_PermanentForbiddance ==
  \A f \in forbidden : f[2] \notin Range(tiles[f[1]].options)

\* C19  A pattern that unwind removed from a cell's options is absent right
\* after that unwind and stays absent through every collapsing, stuck or
\* finished step; it comes back only when a later unwind pops a snapshot that
\* captured the cell (its options are put back as they were before that older
\* collapse), or on reset.
C19_ForbiddanceUntilRestore ==
  /\ [](lastOp.op = "unwind" =>
          lastOp.pattern \notin Range(tiles[lastOp.target].options))
  /\ [][\A f \in forbidden :
          (/\ f[2] \notin Range(tiles[f[1]].options)
           /\ f[2] \in Range(tiles'[f[1]].options)) =>
            \/ lastOp'.op = "reset"
            \/ /\ lastOp'.op = "unwind"
               /\ f[1] \in Captured(Last(history))
               /\ f[1] # lastOp'.target]_vars

\* a deeper unwind has put a forbidden pattern back among a cell's options
C19_Witness ==
  /\ lastOp.op = "unwind"
  /\ \E f \in forbidden : f[2] \in Range(tiles[f[1]].options)

\* ======================================================================
\* Preprocessing: source image -> images -> edges / adjacency rules
\* ======================================================================
\* ---------------------------------------------------------------- bounds
MaxImageWidth == 3
MaxImageHeight == 3
\* the largest number of pixels of a source image
MaxPixels == 6
\* the largest tile size / window size n
MaxSize == 2

\* the pixel values of the source images
Colors == {"black", "white"}

\* macroquad's Image: width, height and the pixels row by row
Img(w, h, px) == [width |-> w, height |-> h, bytes |-> px]

\* Image::get_pixel(x, y), x and y counted from 0
get_pixel(img, x, y) == img.bytes[y * img.width + x + 1]

\* Image::sub_image(Rect::new(x, y, w, h)) reads the source buffer at
\* row * width + column for every pixel of the rectangle: a column past the
\* right border reads on into the next row, an index past the end of the
\* buffer panics
sub_image_panics(img, x, y, w, h) ==
  (y + h - 1) * img.width + (x + w - 1) >= img.width * img.height

sub_image(img, x, y, w, h) ==
  Img(w, h, [k \in 1..(w * h) |->
               img.bytes[(y + ((k - 1) \div w)) * img.width + x + ((k - 1) % w) + 1]])

\* one turn of rotate_image's loop: set_pixel(height - 1 - y, x, get_pixel(x, y))
\* for every x, y, read from the copy taken before the turn
RotateOnce(img) ==
  Img(img.width, img.height,
      [k \in 1..(img.width * img.height) |->
         LET nx == (k - 1) % img.width
             ny == (k - 1) \div img.width
         IN get_pixel(img, ny, img.height - 1 - nx)])

RECURSIVE rotate_image(_, _)
rotate_image(image, rot) ==
  IF rot = 0 THEN image ELSE RotateOnce(rotate_image(image, rot - 1))

\* if images.iter().all(|p| p.get_image_data() != img.get_image_data())
\*   { images.push(img) }
PushIfNew(imgs, img) ==
  IF \A k \in 1..Len(imgs) : imgs[k].bytes # img.bytes THEN Append(imgs, img) ELSE imgs

\* [top, right, bottom, left]: top and bottom from left to right, right and
\* left from top to bottom
get_edge_colors(img) ==
  << [x \in 1..img.width |-> get_pixel(img, x - 1, 0)],
     [y \in 1..img.height |-> get_pixel(img, img.width - 1, y - 1)],
     [x \in 1..img.width |-> get_pixel(img, x - 1, img.height - 1)],
     [y \in 1..img.height |-> get_pixel(img, 0, y - 1)] >>

\* get_edges_for_images: every edge gets the number idx had when its pixels
\* were first inserted in edges_store, i.e. the number of different edges seen
\* before it, going through the images in order and through the four sides of
\* each in the order of get_edge_colors
get_edges_for_images(imgs) ==
  LET flat == [k \in 1..(4 * Len(imgs)) |->
                 get_edge_colors(imgs[((k - 1) \div 4) + 1])[((k - 1) % 4) + 1]]
      First(k) == CHOOSE j \in 1..k :
                    flat[j] = flat[k] /\ \A m \in 1..(j - 1) : flat[m] # flat[k]
      Code(k) == Cardinality({First(m) : m \in 1..(First(k) - 1)})
  IN [i \in 1..Len(imgs) |-> [s \in 1..4 |-> Code(4 * (i - 1) + s)]]

\* main.rs has the same function over textures
get_edges_for_textures(tex) == get_edges_for_images(tex)

\* what an extraction hands back: the images, image_to_textures' weights, and
\* whether it panicked on the way (then nothing is returned to the caller)
Extracted(imgs, wts, panic) == [images |-> imgs, weights |-> wts, panicked |-> panic]

\* the origins before the first one whose sub_image panics
BeforePanic(image, origins, size) ==
  LET bad == {k \in 1..Len(origins) :
                sub_image_panics(image, origins[k][1], origins[k][2], size, size)}
  IN IF bad = {} THEN origins
     ELSE SubSeq(origins, 1, (CHOOSE k \in bad : \A m \in bad : k <= m) - 1)

\* ------------------------------------------------- main.rs image_to_textures
\* the body of for rot in 0..4 for one rotation of one sub-image
AddTexture(acc, tex, rot) ==
  LET found == {k \in 1..Len(acc.images) : acc.images[k].bytes = tex.bytes}
  IN IF found # {}
     THEN LET i == CHOOSE k \in found : \A m \in found : k <= m
          IN IF rot = 0 THEN [acc EXCEPT !.weights[i] = @ + 1] ELSE acc
     ELSE [acc EXCEPT !.images = Append(@, tex), !.weights = Append(@, 1)]

RECURSIVE AddTextures(_, _, _, _)
AddTextures(acc, image, origins, step) ==
  IF origins = <<>> THEN acc
  ELSE LET img == sub_image(image, Head(origins)[1], Head(origins)[2], step, step)
           r0 == AddTexture(acc, rotate_image(img, 0), 0)
           r1 == AddTexture(r0, rotate_image(img, 1), 1)
           r2 == AddTexture(r1, rotate_image(img, 2), 2)
           r3 == AddTexture(r2, rotate_image(img, 3), 3)
       IN AddTextures(r3, image, Tail(origins), step)

\* the while loop walks x from 0 in steps of `step` and, when x reaches the
\* width, puts x back to 0 and moves y on, as long as y < image.height()
image_to_textures(image, step) ==
  IF image.width % step # 0 THEN Extracted(<<>>, <<>>, FALSE)
  ELSE LET nx == image.width \div step
           ny == (image.height + step - 1) \div step
           origins == [k \in 1..(nx * ny) |->
                         <<((k - 1) % nx) * step, ((k - 1) \div nx) * step>>]
           reached == BeforePanic(image, origins, step)
           got == AddTextures(Extracted(<<>>, <<>>, FALSE), image, reached, step)
       IN [got EXCEPT !.panicked = (reached # origins)]

\* ------------------------------- extract_images of the two preprocessors
\* the body of the two loops for one sub-image: its rotations 1..3 when
\* rotate is set, then the sub-image itself, each pushed if not yet there
PushRotations(imgs, img, rotate) ==
  LET r1 == IF rotate THEN PushIfNew(imgs, rotate_image(img, 1)) ELSE imgs
      r2 == IF rotate THEN PushIfNew(r1, rotate_image(img, 2)) ELSE r1
      r3 == IF rotate THEN PushIfNew(r2, rotate_image(img, 3)) ELSE r2
  IN PushIfNew(r3, img)

RECURSIVE PushAll(_, _, _)
PushAll(imgs, subs, rotate) ==
  IF subs = <<>> THEN imgs
  ELSE PushAll(PushRotations(imgs, Head(subs), rotate), Tail(subs), rotate)

\* TileProcessor::extract_images: x outer and y inner, both from 0 in steps of
\* tile_size while inside the image; nothing tests the divisibility
TileExtractImages(image, tile_size, rotate) ==
  LET nx == (image.width + tile_size - 1) \div tile_size
      ny == (image.height + tile_size - 1) \div tile_size
      origins == [k \in 1..(nx * ny) |->
                    <<((k - 1) \div ny) * tile_size, ((k - 1) % ny) * tile_size>>]
      reached == BeforePanic(image, origins, tile_size)
      subs == [k \in 1..Len(reached) |->
                 sub_image(image, reached[k][1], reached[k][2], tile_size, tile_size)]
  IN Extracted(PushAll(<<>>, subs, rotate), <<>>, reached # origins)

\* ------------------------------------------------------ overlapping_model.rs
\* get_pattern_image: the n x n window at (x, y), reading the source modulo
\* its width and height
get_pattern_image(src_image, n, x, y) ==
  Img(n, n, [k \in 1..(n * n) |->
               get_pixel(src_image, (x + ((k - 1) % n)) % src_image.width,
                                    (y + ((k - 1) \div n)) % src_image.height)])

\* for x in 0..width { for y in 0..height { .. } } with
\* width = if wrap_w { image.width } else { image.width - n }, height alike
OverlapOrigins(image, n, wrap_w, wrap_h) ==
  LET w == IF wrap_w THEN image.width ELSE image.width - n
      h == IF wrap_h THEN image.height ELSE image.height - n
  IN [k \in 1..(w * h) |-> <<(k - 1) \div h, (k - 1) % h>>]

\* OverlappingPreprocessor::extract_images
OverlapExtractImages(image, n, wrap_w, wrap_h, rotate) ==
  LET origins == OverlapOrigins(image, n, wrap_w, wrap_h)
      subs == [k \in 1..Len(origins) |->
                 get_pattern_image(image, n, origins[k][1], origins[k][2])]
  IN Extracted(PushAll(<<>>, subs, rotate), <<>>, FALSE)

\* a table of offsets whose last entry repeats the east offset
N_INDEXES_east_twice == << <<0, -1>>, <<1, 0>>, <<0, 1>>, <<1, 0>> >>

\* utils.rs: the offsets of the north, east, south and west neighbour
N_INDEXES == << <<0, -1>>, <<1, 0>>, <<0, 1>>, <<-1, 0>> >>

\* the vector the loop over the images in index order pushes: the members of
\* S in increasing order
RECURSIVE Ascending(_)
Ascending(S) ==
  IF S = {} THEN <<>>
  ELSE LET m == CHOOSE k \in S : \A j \in S : k <= j
       IN <<m>> \o Ascending(S \ {m})

Reverse(s) == [k \in 1..Len(s) |-> s[Len(s) - k + 1]]

\* a comparison that reads img at (x, y) and overlap_img at (tx, ty)
OverlapValid_swapped(img, overlap_img, n, ox, oy) ==
  \A x \in 0..(n - 1), y \in 0..(n - 1) :
    LET tx == ox + x
        ty == oy + y
    IN (tx >= 0 /\ tx < n /\ ty >= 0 /\ ty < n) =>
         get_pixel(img, x, y) = get_pixel(overlap_img, tx, ty)

\* the 'coords loops: valid stays true iff for every x, y of the window
\* with (ox + x, oy + y) inside the window
\* overlap_img.get_pixel(x, y) == img.get_pixel(ox + x, oy + y)
OverlapValid(img, overlap_img, n, ox, oy) ==
  \A x \in 0..(n - 1), y \in 0..(n - 1) :
    LET tx == ox + x
        ty == oy + y
    IN (tx >= 0 /\ tx < n /\ ty >= 0 /\ ty < n) =>
         get_pixel(overlap_img, x, y) = get_pixel(img, tx, ty)

\* OverlappingPreprocessor::create_adjacency_rules: for every image and every
\* offset of N_INDEXES (by its position 1..4) the valid image indexes, reversed
OverlapAdjacencyRules(imgs, n) ==
  [i \in 1..Len(imgs) |->
     [d \in 1..4 |->
        LET Valid(j) == OverlapValid(imgs[i], imgs[j + 1], n,
                                     N_INDEXES[d][1], N_INDEXES[d][2])
        IN Reverse(Ascending({j \in 0..(Len(imgs) - 1) : Valid(j)}))]]

\* ------------------------------------------------------------ tile_model.rs
\* a table that compares every edge with the same edge of the target
OPPOSITE_EDGES_INDEXES_same == << <<0, 0>>, <<1, 1>>, <<2, 2>>, <<3, 3>> >>

OPPOSITE_EDGES_INDEXES == << <<0, 2>>, <<1, 3>>, <<2, 0>>, <<3, 1>> >>

\* TileProcessor::create_adjacency_rules: for every image and every n_idx (the
\* position of the offset in N_INDEXES) the target indexes whose target_edge
\* carries the code of the image's src_edge, in increasing order
TileAdjacencyRules(imgs) ==
  LET edge_data == get_edges_for_images(imgs)
  IN [i \in 1..Len(imgs) |->
        [d \in 1..4 |->
           LET Match(j) == edge_data[i][OPPOSITE_EDGES_INDEXES[d][1] + 1] =
                             edge_data[j + 1][OPPOSITE_EDGES_INDEXES[d][2] + 1]
           IN Ascending({j \in 0..(Len(imgs) - 1) : Match(j)})]]

\* ------------------------------------------------- the preprocessing runs
SourceImages ==
  LET Sizes == {d \in (1..MaxImageWidth) \X (1..MaxImageHeight) : d[1] * d[2] <= MaxPixels}
  IN UNION {{Img(d[1], d[2], px) : px \in [1..(d[1] * d[2]) -> Colors]} : d \in Sizes}

Input(mode, image, size, rotate, wrap_w, wrap_h) ==
  [mode |-> mode, image |-> image, size |-> size, rotate |-> rotate,
   wrap_w |-> wrap_w, wrap_h |-> wrap_h]

\* the inputs of the three preprocessings.  image.width - n is a u16: the
\* overlapping inputs are those whose window is not larger than an axis that
\* does not wrap, so that the subtraction stays in range
Sources ==
  {Input("main", i, s, FALSE, FALSE, FALSE) : i \in SourceImages, s \in 1..MaxSize}
  \cup {Input("tile", i, s, r, FALSE, FALSE) :
          i \in SourceImages, s \in 1..MaxSize, r \in BOOLEAN}
  \cup {in \in {Input("overlap", i, s, r, ww, wh) :
                  i \in SourceImages, s \in 1..MaxSize,
                  r \in BOOLEAN, ww \in BOOLEAN, wh \in BOOLEAN} :
          /\ (~in.wrap_w => in.size <= in.image.width)
          /\ (~in.wrap_h => in.size <= in.image.height)}

solverVars == <<width, height, catalog, capacity, tiles, history, can_continue, lastOp,
                pre, forbidden>>

\* main.rs:440
ImageToTextures ==
  /\ stage = "source" /\ source.mode = "main"
  /\ LET r == image_to_textures(source.image, source.size)
     IN /\ images' = r.images
        /\ weights' = r.weights
        /\ panicked' = r.panicked
  /\ stage' = "textures"
  /\ UNCHANGED <<solverVars, source, adjacency>>

\* main.rs:441-443: the edges, the options and Map::new
BuildMap ==
  /\ stage = "textures" /\ ~panicked
  /\ LET texture_edges == get_edges_for_textures(images)
         options == [i \in 1..Len(images) |-> Pat(i - 1, texture_edges[i], weights[i])]
     IN /\ catalog' = options
        /\ width' = MaxWidth
        /\ height' = MaxHeight
        /\ tiles' = MapNew([i \in 1..Len(images) |-> i - 1], MaxWidth, MaxHeight)
  /\ stage' = "map"
  /\ UNCHANGED <<capacity, history, can_continue, lastOp, pre, forbidden,
                 source, images, weights, panicked, adjacency>>

\* TileProcessor::extract_images(&image)
TileExtract ==
  /\ stage = "source" /\ source.mode = "tile"
  /\ LET r == TileExtractImages(source.image, source.size, source.rotate)
     IN /\ images' = r.images
        /\ weights' = r.weights
        /\ panicked' = r.panicked
  /\ stage' = "tile_images"
  /\ UNCHANGED <<solverVars, source, adjacency>>

\* TileProcessor::create_adjacency_rules(&images)
TileRules ==
  /\ stage = "tile_images" /\ ~panicked
  /\ adjacency' = TileAdjacencyRules(images)
  /\ stage' = "tile_rules"
  /\ UNCHANGED <<solverVars, source, images, weights, panicked>>

\* OverlappingPreprocessor::extract_images(&image)
OverlapExtract ==
  /\ stage = "source" /\ source.mode = "overlap"
  /\ LET r == OverlapExtractImages(source.image, source.size, source.wrap_w,
                                   source.wrap_h, source.rotate)
     IN /\ images' = r.images
        /\ weights' = r.weights
        /\ panicked' = r.panicked
  /\ stage' = "overlap_images"
  /\ UNCHANGED <<solverVars, source, adjacency>>

\* OverlappingPreprocessor::create_adjacency_rules(&images)
OverlapRules ==
  /\ stage = "overlap_images"
  /\ adjacency' = OverlapAdjacencyRules(images, source.size)
  /\ stage' = "overlap_rules"
  /\ UNCHANGED <<solverVars, source, images, weights, panicked>>

PrepInit ==
  /\ source \in Sources
  /\ images = <<>>
  /\ weights = <<>>
  /\ panicked = FALSE
  /\ adjacency = <<>>
  /\ stage = "source"
  /\ width = 0
  /\ height = 0
  /\ catalog = <<>>
  /\ capacity = HISTORY_LENGTH
  /\ tiles = <<>>
  /\ history = <<>>
  /\ pre = <<>>
  /\ forbidden = {}
  /\ can_continue = TRUE
  /\ lastOp = Op("new", -1, -1, -1)

PrepNext ==
  ImageToTextures \/ BuildMap \/ TileExtract \/ TileRules \/ OverlapExtract \/ OverlapRules

\* one preprocessing of one input, up to the rules or the Map built from it
PrepSpec == PrepInit /\ [][PrepNext]_vars

\* ======================================================================
\* direction d is the position in N_INDEXES: 1 north, 2 east, 3 south, 4 west
\* the table lists image b for image a in direction d
TableAdmits(a, b, d) == b \in Range(adjacency[a + 1][d])

\* on the fresh Map, collapsing a cell to pattern a leaves pattern b among the
\* options of its neighbour in direction d
SolverAdmits(a, b, d) ==
  \E i \in Cells :
    LET x == xy_from_index(i, width)[1]
        y == xy_from_index(i, width)[2]
        nx == x + N_INDEXES[d][1]
        ny == y + N_INDEXES[d][2]
    IN /\ nx \in 0..(width - 1)
       /\ ny \in 0..(height - 1)
       /\ b \in Range(collapse(tiles, x, y, a)[index_from_xy(nx, ny, width)].options)

\* C11  Edge-code adjacency is symmetric: a admits b as north neighbour iff b
\* admits a as south neighbour, and a admits b as east neighbour iff b admits a
\* as west neighbour, both in the table of TileProcessor::create_adjacency_rules
\* and for the options collapse/compare leave on a Map built from the edges.
C11_AdjacencySymmetric ==
  /\ stage = "tile_rules" =>
       \A a \in 0..(Len(images) - 1), b \in 0..(Len(images) - 1) :
         /\ TableAdmits(a, b, 1) <=> TableAdmits(b, a, 3)
         /\ TableAdmits(a, b, 2) <=> TableAdmits(b, a, 4)
  /\ stage = "map" =>
       \A a \in Range(AllPatterns), b \in Range(AllPatterns) :
         /\ SolverAdmits(a, b, 1) <=> SolverAdmits(b, a, 3)
         /\ SolverAdmits(a, b, 2) <=> SolverAdmits(b, a, 4)

\* a table over at least two images in which some image admits another one
\* to its north and some pair is not admitted
C11_Witness ==
  /\ stage = "tile_rules"
  /\ \E a \in 0..(Len(images) - 1), b \in 0..(Len(images) - 1) :
       a # b /\ TableAdmits(a, b, 1)
  /\ \E a \in 0..(Len(images) - 1), b \in 0..(Len(images) - 1) :
       ~TableAdmits(a, b, 1) /\ ~TableAdmits(a, b, 2)

\* every pixel of the image is the same colour
Uniform(image) == \A k \in DOMAIN image.bytes : image.bytes[k] = image.bytes[1]

\* C12  Catalog dedup: for a source in which every pixel is the same colour,
\* and any window size n, OverlappingPreprocessor::extract_images returns
\* exactly one pattern, with rotate on or off and for either wrap setting.
C12_UniformOnePattern ==
  (stage = "overlap_images" /\ Uniform(source.image)) => Len(images) = 1

\* the source's width or height is not a multiple of the tile size
NotDivisible ==
  source.image.width % source.size # 0 \/ source.image.height % source.size # 0

\* C13  InvalidSourceDimensions: in fixed-tile/edge-code mode, whenever the
\* source width or height is not a multiple of the tile size the builder
\* returns an empty catalog (no patterns, no weights) and extracts no tile.
C13_InvalidSourceDimensions ==
  (stage \in {"textures", "tile_images"} /\ NotDivisible) =>
    (images = <<>> /\ weights = <<>>)

\* C20  Overlap adjacency: in the table built by
\* OverlappingPreprocessor::create_adjacency_rules, for all images a and b and
\* every offset (dx, dy) of north, east, south and west, b is listed for a at
\* that offset iff b(x, y) = a(x + dx, y + dy) for every (x, y) of the n x n
\* window for which (x + dx, y + dy) is inside the window too.
C20_OverlapAdjacency ==
  stage = "overlap_rules" =>
    \A a \in 0..(Len(images) - 1), b \in 0..(Len(images) - 1), d \in 1..4 :
      TableAdmits(a, b, d) <=>
        \A x \in 0..(source.size - 1), y \in 0..(source.size - 1) :
          LET ax == x + N_INDEXES[d][1]
              ay == y + N_INDEXES[d][2]
          IN (ax \in 0..(source.size - 1) /\ ay \in 0..(source.size - 1)) =>
               get_pixel(images[b + 1], x, y) = get_pixel(images[a + 1], ax, ay)

\* a table over 2 x 2 windows in which some image is listed for another image
\* to the north but not the other way round
C20_Witness ==
  /\ stage = "overlap_rules"
  /\ source.size = 2
  /\ \E a \in 0..(Len(images) - 1), b \in 0..(Len(images) - 1) :
       a # b /\ TableAdmits(a, b, 1) /\ ~TableAdmits(b, a, 1)

\* ======================================================================
\* the sum of the weights of the first k options
RunningSum(opts, k) == TotalWeights(SubSeq(opts, 1, k))

\* the position of the first option at which the running sum reaches d
FirstReaching(opts, d) ==
  CHOOSE k \in 1..Len(opts) :
    /\ RunningSum(opts, k) >= d
    /\ \A j \in 1..(k - 1) : RunningSum(opts, j) < d

\* C21  Weighted choice: for every cell whose options are not empty and all
\* have weight >= 1, and every draw d in 0..total weight, choose_pattern
\* returns a member of the options, the first one in option order at which the
\* running sum of the weights reaches d, and the first option when d = 0; the
\* pattern a collapsing step commits is one of the observed cell's options.
C21_WeightedChoice ==
  /\ [](\A i \in Cells :
          LET opts == tiles[i].options
          IN (opts # <<>> /\ \A p \in Range(opts) : Weight(p) >= 1) =>
               \A d \in 0..TotalWeights(opts) :
                 LET r == choose_pattern(opts, d)
                 IN /\ r # None
                    /\ r[1] \in Range(opts)
                    /\ r[1] = opts[FirstReaching(opts, d)]
                    /\ (d = 0 => r[1] = opts[1]))
  /\ [][lastOp'.op = "collapse" =>
          lastOp'.pattern \in Range(tiles[lastOp'.cell].options)]_vars

\* a collapse has committed the second of two options of unequal weight
C21_Witness ==
  /\ lastOp.op = "collapse"
  /\ catalog = CatalogA
  /\ pre # <<>>
  /\ Last(pre).tiles[lastOp.cell].options = <<0, 1>>
  /\ lastOp.pattern = 1

\* C22  Output consistency: in every state reachable by step() and reset()
\* calls, two orthogonally adjacent collapsed cells hold patterns whose facing
\* edge codes are equal: east edge of the left cell = west edge of the right
\* cell, south edge of the upper cell = north edge of the lower cell.
C22_OutputConsistent ==
  \A i \in Cells :
    LET x == xy_from_index(i, width)[1]
        y == xy_from_index(i, width)[2]
    IN tiles[i].collapsed # None =>
         /\ (x # width - 1 /\ tiles[i + 1].collapsed # None) =>
              Edges(tiles[i].collapsed[1])[2] = Edges(tiles[i + 1].collapsed[1])[4]
         /\ (y # height - 1 /\ tiles[i + width].collapsed # None) =>
              Edges(tiles[i].collapsed[1])[3] = Edges(tiles[i + width].collapsed[1])[1]

\* a grid finished after at least one unwind, in which pattern 0 sits west of
\* pattern 1 with the edge code 1 between them
C22_Witness ==
  /\ is_finished
  /\ forbidden # {}
  /\ catalog = CatalogC
  /\ width = 2
  /\ tiles[0].collapsed = Some(0)
  /\ tiles[1].collapsed = Some(1)

\* C23  Termination: from any reachable state, whatever the random choices,
\* repeated step() calls eventually yield one that returns false (finished or
\* stuck); no run has step() return true forever.
C23_Termination == can_continue ~> ~can_continue

\* with a history that holds snapshots, a run of collapses and unwinds has
\* ended in a step that found no snapshot left and returned false
C23_Witness ==
  /\ lastOp.op = "stuck"
  /\ ~can_continue
  /\ capacity >= 1
  /\ forbidden # {}

\* C24  Terminal states are absorbing: step returns false only as finished or
\* stuck; once it has returned false every further step returns false again and
\* leaves tiles and history as they are, until reset; after reset the flag is
\* true again and a step that returns true is possible.
C24_TerminalAbsorbing ==
  /\ [](~can_continue => lastOp.op \in {"finished", "stuck"})
  /\ [][(~can_continue /\ lastOp'.op # "reset") =>
          /\ ~can_continue'
          /\ lastOp'.op = lastOp.op
          /\ tiles' = tiles
          /\ history' = history]_vars
  /\ [](lastOp.op = "reset" => (can_continue /\ ENABLED (Step /\ can_continue')))

\* step has returned false with two open cells without options: the next
\* step can observe the other one and returns false again
C24_Witness ==
  /\ ~can_continue
  /\ lastOp.op = "stuck"
  /\ \E c \in Cells : /\ c # lastOp.cell
                      /\ tiles[c].collapsed = None
                      /\ Len(tiles[c].options) = 0

\* C25  Overlap adjacency is symmetric under direction reversal: in the table
\* built by OverlappingPreprocessor::create_adjacency_rules, for all images a
\* and b, b is listed for a to the north iff a is listed for b to the south,
\* and b is listed for a to the east iff a is listed for b to the west.
C25_OverlapSymmetric ==
  stage = "overlap_rules" =>
    \A a \in 0..(Len(images) - 1), b \in 0..(Len(images) - 1) :
      /\ TableAdmits(a, b, 1) <=> TableAdmits(b, a, 3)
      /\ TableAdmits(a, b, 3) <=> TableAdmits(b, a, 1)
      /\ TableAdmits(a, b, 2) <=> TableAdmits(b, a, 4)
      /\ TableAdmits(a, b, 4) <=> TableAdmits(b, a, 2)

\* a table over 2 x 2 windows in which b is listed east of a and a west of b,
\* but a is not listed east of b
C25_Witness ==
  /\ stage = "overlap_rules"
  /\ source.size = 2
  /\ \E a \in 0..(Len(images) - 1), b \in 0..(Len(images) - 1) :
       /\ a # b
       /\ TableAdmits(a, b, 2)
       /\ TableAdmits(b, a, 4)
       /\ ~TableAdmits(b, a, 2)
====
